---- MODULE Spec2Model ----
(***************************************************************************)
(* A model of smile/experiment.py: Experiment.__init__ (command line and  *)
(* screen), Experiment.run (window creation, flip interval calibration,    *)
(* event loop, log finalisation), blocking_flip, the ExpWindow input       *)
(* handlers, and the Set / Get / Log nodes.                                *)
(*                                                                         *)
(* Times are integers.  The clock only ever shows multiples of Halving, so *)
(* that the division by 2. of Experiment.run is exact, as it is for the    *)
(* floats of the program.                                                  *)
(***************************************************************************)
EXTENDS Integers, Sequences, FiniteSets, TLC

\* ---- bounds of the model ------------------------------------------------
MaxTime == 8        \* the clock stops advancing at this value
MaxStep == 1        \* largest clock advance between two samples, in Halving units
MaxNFlips == 3      \* largest nflips argument of _calc_flip_interval
MaxNIgnore == 2     \* largest nignore argument of _calc_flip_interval
MaxCallbacks == 1   \* most callbacks registered in each callback list
IterCap == 2        \* the iteration count is kept up to this value
MaxExps == 2        \* most Experiment objects constructed
MaxLogs == 2        \* most activations of Log nodes
MaxScreen == 2      \* the largest screen index
MaxRegistered == 2  \* most callbacks in a callback list when only the handlers run

\* the divisor of "(self._new_time - self._last_time)/2."
Halving == 2

VARIABLES
    pc,               \* position of the control thread inside Experiment.run
    nflips, nignore,  \* arguments of _calc_flip_interval
    nocsv,            \* self.nocsv (--nocsv)
    clock,            \* the last value returned by now()
    window,           \* self.window: "none", "open" or "closed"
    need_flip,        \* window.need_flip
    need_draw,        \* window.need_draw
    has_exit,         \* window.has_exit
    key_callbacks,    \* window.key_callbacks
    mouse_callbacks,  \* window.mouse_callbacks
    last_flip,        \* self.last_flip
    last_event,       \* self.last_event
    exp_event_time,   \* self.event_time (Unassigned before the first iteration)
    flip_interval,    \* self.flip_interval, a fraction num/den
    last_time,        \* self._last_time
    new_time,         \* self._new_time
    done,             \* self.done, set by the state tree
    ci, diffs, count, c_last_time,  \* locals i, diffs, count, last_time of _calc_flip_interval
    raised,           \* the exception that ended run(), or "none"
    calibTimes,       \* history: the timestamps returned by the flips of the calibration call
    handled_ev,       \* history: the event handled last by the running dispatch_events call
    calls,            \* history: the callback invocations made by the handler of that event
    passed,           \* history: the event times handed to callbacks by the running dispatch_events call
    flipCall,         \* history: what the most recent blocking_flip call did and returned
    drawnSince,       \* history: on_draw has drawn since the most recent blocking_flip call
    iters,            \* history: the iterations of the event loop begun so far, counted up to IterCap
    oplog,            \* history: the start-up and shut-down steps run() has taken, in order
    exp_vars,         \* the _vars dictionary of every Experiment constructed, in order
    last_instance,    \* Experiment.last_instance: the index of the latest Experiment
    ref_store,        \* the value each Ref handle evaluates to
    get_ref,          \* the reference returned by the last Get call
    got,              \* the outcome of the last resolution of get_ref, while no store has changed
    set_outcome,      \* how the most recent Set activation ended: "str", "ref" or "ValueError"
    set_kind,         \* history: what the variable of that Set node resolved to: "str", "ref" or "other"
    ref_sets,         \* history: the calls of Ref.set that activation made
    recent,           \* history: per Experiment and name, the value of the latest Set
    exp_log,          \* the records appended through self.exp_log_stream
    state_log,        \* the number of records appended through self.state_log_stream
    file_log,         \* the records appended to the named log file, each with the stream that wrote it
    open_streams,     \* the streams to the named log file that are open
    n_opened,         \* the number of streams opened to the named log file so far
    last_log,         \* history: the Log node activated last
    argv,             \* the command line: --screen (given or not, value) and --fullscreen
    ctor,             \* the arguments screen_ind and fullscreen of Experiment.__init__
    parsed,           \* the attributes screen_ind and fullscreen as _process_args leaves them
    exp_screen,       \* the index of the screen chosen as self.screen
    exp_fullscreen,   \* self.fullscreen as __init__ leaves it
    apc               \* position inside Experiment.__init__: "start", "parsed" or "constructed"

\* the variables of the running dispatch_events call
dVars == <<handled_ev, calls, passed>>

runVars == <<pc, nflips, nignore, nocsv, clock, window, need_flip, need_draw,
             has_exit, key_callbacks, mouse_callbacks, last_flip, last_event,
             exp_event_time, flip_interval, last_time, new_time, done, ci,
             diffs, count, c_last_time, raised, calibTimes, dVars, flipCall,
             drawnSince, iters, oplog>>

nodeVars == <<exp_vars, last_instance, ref_store, get_ref, got, set_outcome,
              set_kind, ref_sets, recent>>

logVars == <<exp_log, state_log, file_log, open_streams, n_opened, last_log>>

argVars == <<argv, ctor, parsed, exp_screen, exp_fullscreen, apc>>

\* what run() and the window leave alone, and what the variable nodes do
outsideRun == <<nodeVars, logVars, argVars>>
outsideNodes == <<runVars, logVars, argVars>>

vars == <<runVars, nodeVars, logVars, argVars>>

\* ---- values -------------------------------------------------------------
\* event_time(time, time_error): a Timestamp
event_time(time, time_error) == [time |-> time, error |-> time_error]

\* no event handled yet
NoEvent == [kind |-> "none", symbol |-> "A", mod |-> {}]

\* the attribute self.event_time before its first assignment
Unassigned == [time |-> -1, error |-> -1]

\* the greatest common divisor of two naturals, b > 0
RECURSIVE Gcd(_, _)
Gcd(a, b) == IF a = 0 THEN b ELSE Gcd(b % a, a)

\* the float n/d of the program, kept as a fraction in lowest terms (d > 0)
Fraction(n, d) == [num |-> n \div Gcd(n, d), den |-> d \div Gcd(n, d)]

\* the clock advances now() may show since the previous sample
Advances == {d \in 0..MaxStep : clock + d * Halving <= MaxTime}

NoFlipCall == [called |-> FALSE, ret |-> event_time(0, 0), swapped |-> FALSE,
               sampled |-> FALSE, afterDraw |-> FALSE, hasPrev |-> FALSE,
               prevRet |-> event_time(0, 0), flipBefore |-> event_time(0, 0),
               flipAfter |-> event_time(0, 0), needBefore |-> FALSE,
               needAfter |-> FALSE, steps |-> <<>>, finished |-> 0]

\* the window, the flip record and the clock, as blocking_flip and on_draw use them
GState == [need_flip |-> need_flip, need_draw |-> need_draw,
           last_flip |-> last_flip, clock |-> clock,
           drawnSince |-> drawnSince, flipCall |-> flipCall]

\* on_draw that also stamps last_flip with the time of the draw
on_draw_stamps(g, force) ==
    IF force \/ g.need_draw
    THEN [g EXCEPT !.need_flip = TRUE, !.drawnSince = TRUE,
                   !.last_flip = event_time(g.clock, 0)]
    ELSE g

\* ExpWindow.on_draw
on_draw(g, force) ==
    IF force \/ g.need_draw
    THEN [g EXCEPT !.need_flip = TRUE, !.drawnSince = TRUE]
    ELSE g

\* the record of one blocking_flip call: g before it, h after it, whether it
\* requested a swap and sampled now(), what it returned, the steps it took in
\* order, and what the clock showed when glFinish returned
FlipRecordOfCall(g, h, swapped, sampled, steps, finished) ==
    [called |-> TRUE, ret |-> h.last_flip, swapped |-> swapped,
     sampled |-> sampled, afterDraw |-> g.drawnSince,
     hasPrev |-> g.flipCall.called, prevRet |-> g.flipCall.ret,
     flipBefore |-> g.last_flip, flipAfter |-> h.last_flip,
     needBefore |-> g.need_flip, needAfter |-> h.need_flip,
     steps |-> steps, finished |-> finished]

\* the steps of a blocking_flip call that finds need_flip set, and of one that
\* does not
FlipSteps == <<"flip", "glFinish", "now", "set_last_flip", "clear_need_flip", "return">>
NoFlipSteps == <<"return">>

\* blocking_flip sampling now() before it requests the swap
blocking_flip_sample_first(g, d) ==
    IF g.need_flip
    THEN LET h == [g EXCEPT !.clock = g.clock + d * Halving,
                            !.last_flip = event_time(g.clock, 0),
                            !.need_flip = FALSE]
         IN [h EXCEPT !.drawnSince = FALSE,
                      !.flipCall = FlipRecordOfCall(g, h, TRUE, TRUE,
                                       <<"now", "flip", "glFinish", "set_last_flip",
                                         "clear_need_flip", "return">>,
                                       g.clock + d * Halving)]
    ELSE [g EXCEPT !.drawnSince = FALSE,
                   !.flipCall = FlipRecordOfCall(g, g, FALSE, FALSE, NoFlipSteps, 0)]

\* blocking_flip without "if self.window.need_flip"
blocking_flip_always(g, d) ==
    LET h == [g EXCEPT !.clock = g.clock + d * Halving,
                       !.last_flip = event_time(g.clock + d * Halving, 0),
                       !.need_flip = FALSE]
    IN [h EXCEPT !.drawnSince = FALSE,
                 !.flipCall = FlipRecordOfCall(g, h, TRUE, TRUE, FlipSteps,
                                               g.clock + d * Halving)]

\* Experiment.blocking_flip; d is the time the swap and glFinish take, so
\* g.clock + d * Halving is what now() shows after them.  The value returned
\* is self.last_flip as the call leaves it.
blocking_flip(g, d) ==
    IF g.need_flip
    THEN LET h == [g EXCEPT !.clock = g.clock + d * Halving,
                            !.last_flip = event_time(g.clock + d * Halving, 0),
                            !.need_flip = FALSE]
         IN [h EXCEPT !.drawnSince = FALSE,
                      !.flipCall = FlipRecordOfCall(g, h, TRUE, TRUE, FlipSteps,
                                                    g.clock + d * Halving)]
    ELSE [g EXCEPT !.drawnSince = FALSE,
                   !.flipCall = FlipRecordOfCall(g, g, FALSE, FALSE, NoFlipSteps, 0)]

\* the variables of GState take the values of g
SetGState(g) ==
    /\ need_flip' = g.need_flip
    /\ need_draw' = g.need_draw
    /\ last_flip' = g.last_flip
    /\ clock' = g.clock
    /\ drawnSince' = g.drawnSince
    /\ flipCall' = g.flipCall

gVars == <<need_flip, need_draw, last_flip, clock, drawnSince, flipCall>>

\* ---- values of the variable nodes ------------------------------------------
Names == {"x", "y"}        \* Python strings
Numbers == {"5", "7"}      \* Python integers, written as their literals
RefIds == {"ref"}          \* Ref handles
Unset == "<unset>"         \* no entry under this key
Concrete == Names \cup Numbers

\* what a Set node is given as its variable, and as its value
VarExprs == Names \cup RefIds \cup Numbers
ValExprs == Numbers

\* what the Ref handle evaluates to when the experiment starts
RefStartValues == {"x", "5"}

\* an empty _vars dictionary
EmptyVars == [n \in Names |-> Unset]

NoRef == [exists |-> FALSE, var |-> Unset, older |-> FALSE]
NoGot == [valid |-> FALSE, name |-> Unset, outcome |-> Unset, value |-> Unset,
          older |-> FALSE]
\* ---- Experiment.__init__ --------------------------------------------------
RunInit ==
    /\ pc = "constructed"
    /\ nflips \in 0..MaxNFlips
    /\ nignore \in 0..MaxNIgnore
    /\ nocsv \in BOOLEAN
    /\ clock = Halving
    /\ window = "none"
    /\ need_flip = FALSE
    /\ need_draw = FALSE
    /\ has_exit = FALSE
    /\ key_callbacks = <<>>
    /\ mouse_callbacks = <<>>
    /\ last_flip = event_time(0, 0)
    /\ last_event = event_time(0, 0)
    /\ exp_event_time = Unassigned
    /\ flip_interval = Fraction(1, 60)
    /\ last_time = 0
    /\ new_time = 0
    /\ done = FALSE
    /\ ci = 0
    /\ diffs = 0
    /\ count = 0
    /\ c_last_time = [isDict |-> FALSE, time |-> 0]
    /\ raised = "none"
    /\ calibTimes = <<>>
    /\ handled_ev = NoEvent
    /\ calls = <<>>
    /\ passed = {}
    /\ flipCall = NoFlipCall
    /\ drawnSince = FALSE
    /\ iters = 0
    /\ oplog = <<>>


\* the variable nodes before any is created: one Experiment, no reference
NodeQuiet ==
    /\ exp_vars = <<EmptyVars>>
    /\ last_instance = 1
    /\ ref_store = [r \in RefIds |-> "x"]
    /\ get_ref = NoRef
    /\ got = NoGot
    /\ set_outcome = "none"
    /\ set_kind = "none"
    /\ ref_sets = 0
    /\ recent = <<EmptyVars>>

\* ---- values of the Log nodes ------------------------------------------------
LogKeys == {"stim", "response"}     \* the keys a record may hold
LogFiles == {"trial.yaml"}          \* names given as log_file
NoFile == "<none>"                  \* log_file=None

\* log_items, the keyword arguments of Log: a key is absent, or bound to a
\* number or to the Ref handle
LogItemSets == [LogKeys -> {Unset, "5"} \cup RefIds]

\* log_dict: None, or a dictionary binding keys to a number
LogDicts == [given : {FALSE}, d : {[k \in LogKeys |-> Unset]}]
            \cup [given : {TRUE}, d : [LogKeys -> {Unset, "7"}]]

NoLogNode == [happened |-> FALSE, log_items |-> [k \in LogKeys |-> Unset],
              log_dict |-> [given |-> FALSE, d |-> [k \in LogKeys |-> Unset]],
              log_file |-> NoFile, save_log |-> FALSE]

\* the log streams as Experiment.__init__ opens them, no Log node activated
LogQuiet ==
    /\ exp_log = <<>>
    /\ state_log = 0
    /\ file_log = <<>>
    /\ open_streams = {}
    /\ n_opened = 0
    /\ last_log = NoLogNode

\* ---- values of the command line -------------------------------------------
\* the default of --screen
ScreenDefault == 0

\* an Experiment constructed with its defaults and no flag on the command line
ArgsQuiet ==
    /\ argv = [screen_given |-> FALSE, screen |-> ScreenDefault, fullscreen |-> FALSE]
    /\ ctor = [screen_ind |-> 0, fullscreen |-> FALSE]
    /\ parsed = [screen_ind |-> ScreenDefault, fullscreen |-> FALSE]
    /\ exp_screen = 0
    /\ exp_fullscreen = FALSE
    /\ apc = "constructed"

Init == RunInit /\ NodeQuiet /\ LogQuiet /\ ArgsQuiet

\* ---- input events and their handlers --------------------------------------
\* the modifier keys; the modifiers argument of a handler is the set of those held
Modifiers == {"SHIFT", "CTRL"}

\* "modifiers & key.MOD_SHIFT": the bits of modifiers that are Shift
ModAnd(modifiers, m) == modifiers \cap {m}

KeyPressEvents == [kind : {"key_press"}, symbol : {"ESCAPE", "A"}, mod : SUBSET Modifiers]
MousePressEvents == [kind : {"mouse_press"}, symbol : {"LEFT"}, mod : {{}}]
OtherEvents == [kind : {"key_release", "mouse_motion", "mouse_release",
                        "mouse_drag", "mouse_scroll"},
                symbol : {"A"}, mod : {{}}]
Events == KeyPressEvents \cup MousePressEvents \cup OtherEvents

\* the same loop over reversed(callbacks)
CallAll_reversed(list, callbacks, ev, et) ==
    [i \in 1..Len(callbacks) |->
        [list |-> list, cb |-> callbacks[Len(callbacks) + 1 - i], ev |-> ev, et |-> et]]

\* "for c in callbacks: c(..., self.exp.event_time)": one invocation per callback, in list order
CallAll(list, callbacks, ev, et) ==
    [i \in 1..Len(callbacks) |-> [list |-> list, cb |-> callbacks[i], ev |-> ev, et |-> et]]

\* on_key_press returning as soon as it has set has_exit
on_key_press_exit_returns(w, ev, et) ==
    IF ev.symbol = "ESCAPE" /\ ModAnd(ev.mod, "SHIFT") # {}
    THEN [has_exit |-> TRUE, calls |-> w.calls]
    ELSE [has_exit |-> w.has_exit,
          calls |-> w.calls \o CallAll("key", key_callbacks, ev, et)]

\* on_key_press handing the callbacks event_time(now()) instead of self.exp.event_time
on_key_press_own_time(w, ev, et) ==
    [has_exit |-> IF ev.symbol = "ESCAPE" /\ ModAnd(ev.mod, "SHIFT") # {} THEN TRUE ELSE w.has_exit,
     calls |-> w.calls \o CallAll("key", key_callbacks, ev, event_time(clock, 0))]

\* ExpWindow.on_key_press; w = [has_exit, calls]
on_key_press(w, ev, et) ==
    [has_exit |-> IF ev.symbol = "ESCAPE" /\ ModAnd(ev.mod, "SHIFT") # {} THEN TRUE ELSE w.has_exit,
     calls |-> w.calls \o CallAll("key", key_callbacks, ev, et)]

\* ExpWindow.on_mouse_press
on_mouse_press(w, ev, et) ==
    [w EXCEPT !.calls = w.calls \o CallAll("mouse", mouse_callbacks, ev, et)]

\* on_mouse_motion, on_mouse_release, on_mouse_drag, on_mouse_scroll, on_key_release
on_ignored(w, ev, et) == w

\* the handler of one event
HandleEvent(w, ev, et) ==
    CASE ev.kind = "key_press" -> on_key_press(w, ev, et)
      [] ev.kind = "mouse_press" -> on_mouse_press(w, ev, et)
      [] OTHER -> on_ignored(w, ev, et)

\* ---- Experiment.run: start-up ---------------------------------------------
\* CreateWindow followed by the first clear and flip instead of the calibration
CreateWindow_flip_first ==
    /\ pc = "constructed"
    /\ window' = "open"
    /\ need_flip' = FALSE
    /\ need_draw' = FALSE
    /\ has_exit' = FALSE
    /\ key_callbacks' = <<>>
    /\ mouse_callbacks' = <<>>
    /\ oplog' = oplog \o <<"surface", "bgcolor">>
    /\ pc' = "baseline"
    /\ UNCHANGED <<nflips, nignore, nocsv, clock, last_flip, last_event,
                   exp_event_time, flip_interval, last_time, new_time, done,
                   ci, diffs, count, c_last_time, raised, calibTimes, dVars,
                   flipCall, drawnSince, iters>>
    /\ UNCHANGED outsideRun

\* create the window, set the clear color, hide the mouse, enable blending
CreateWindow ==
    /\ pc = "constructed"
    /\ window' = "open"
    /\ need_flip' = FALSE
    /\ need_draw' = FALSE
    /\ has_exit' = FALSE
    /\ key_callbacks' = <<>>
    /\ mouse_callbacks' = <<>>
    /\ oplog' = oplog \o <<"surface", "bgcolor">>
    /\ pc' = "calibrate"
    /\ UNCHANGED <<nflips, nignore, nocsv, clock, last_flip, last_event,
                   exp_event_time, flip_interval, last_time, new_time, done,
                   ci, diffs, count, c_last_time, raised, calibTimes, dVars,
                   flipCall, drawnSince, iters>>
    /\ UNCHANGED outsideRun

\* _calc_flip_interval is called: diffs = 0.0, last_time = 0.0, count = 0.0
CalibBegin ==
    /\ pc = "calibrate"
    /\ ci' = 0
    /\ diffs' = 0
    /\ count' = 0
    /\ c_last_time' = [isDict |-> FALSE, time |-> 0]
    /\ oplog' = Append(oplog, "calibrate_begin")
    /\ pc' = "calib_loop"
    /\ UNCHANGED <<nflips, nignore, nocsv, window, has_exit, key_callbacks,
                   mouse_callbacks, last_event, exp_event_time, flip_interval,
                   last_time, new_time, done, raised, calibTimes, dVars,
                   iters>>
    /\ UNCHANGED gVars
    /\ UNCHANGED outsideRun

\* "last_time > 0.0" as Python 2 orders it: a dict is greater than any number
GreaterThanZero(x) == IF x.isDict THEN TRUE ELSE x.time > 0

\* the test with "i > nignore"
TakesDelta_after(last, i, nign) == GreaterThanZero(last) /\ i > nign

\* "if last_time > 0.0 and i >= nignore": the delta of sample i is accumulated
TakesDelta(last, i, nign) == GreaterThanZero(last) /\ i >= nign

\* one pass of "for i in range(nflips)": forced draw, blocking flip, accumulate, sleep
CalibFlip ==
    /\ pc = "calib_loop"
    /\ ci < nflips
    /\ \E d \in Advances :
         LET g == blocking_flip(on_draw(GState, TRUE), d)
             cur_time == g.flipCall.ret
             take == TakesDelta(c_last_time, ci, nignore)
         IN /\ SetGState(g)
            /\ diffs' = IF take THEN diffs + (cur_time.time - c_last_time.time) ELSE diffs
            /\ count' = IF take THEN count + 1 ELSE count
            /\ c_last_time' = [isDict |-> TRUE, time |-> cur_time.time]
            /\ calibTimes' = Append(calibTimes, cur_time.time)
    /\ ci' = ci + 1
    /\ UNCHANGED <<pc, nflips, nignore, nocsv, window, has_exit, key_callbacks,
                   mouse_callbacks, last_event, exp_event_time, flip_interval,
                   last_time, new_time, done, raised, dVars, iters, oplog>>
    /\ UNCHANGED outsideRun

\* after the loop: reset the background color, forced draw, blocking flip,
\* "return diffs/count" and the assignment to self.flip_interval
CalibReturn ==
    /\ pc = "calib_loop"
    /\ ci >= nflips
    /\ count # 0
    /\ \E d \in Advances : SetGState(blocking_flip(on_draw(GState, TRUE), d))
    /\ flip_interval' = Fraction(diffs, count)
    /\ oplog' = Append(oplog, "calibrate_end")
    /\ pc' = "print"
    /\ UNCHANGED <<nflips, nignore, nocsv, window, has_exit, key_callbacks,
                   mouse_callbacks, last_event, exp_event_time, last_time,
                   new_time, done, ci, diffs, count, c_last_time, raised,
                   calibTimes, dVars, iters>>
    /\ UNCHANGED outsideRun

\* CalibDivZero with the exception caught and reported by run(), which goes on
CalibDivZero_caught ==
    /\ pc = "calib_loop"
    /\ ci >= nflips
    /\ count = 0
    /\ \E d \in Advances : SetGState(blocking_flip(on_draw(GState, TRUE), d))
    /\ raised' = "ZeroDivisionError"
    /\ pc' = "baseline"
    /\ UNCHANGED <<nflips, nignore, nocsv, window, has_exit, key_callbacks,
                   mouse_callbacks, last_event, exp_event_time, flip_interval,
                   last_time, new_time, done, ci, diffs, count, c_last_time,
                   calibTimes, dVars, iters, oplog>>
    /\ UNCHANGED outsideRun

\* "return diffs/count" with count == 0.0: Python raises ZeroDivisionError
CalibDivZero ==
    /\ pc = "calib_loop"
    /\ ci >= nflips
    /\ count = 0
    /\ \E d \in Advances : SetGState(blocking_flip(on_draw(GState, TRUE), d))
    /\ raised' = "ZeroDivisionError"
    /\ pc' = "aborted"
    /\ UNCHANGED <<nflips, nignore, nocsv, window, has_exit, key_callbacks,
                   mouse_callbacks, last_event, exp_event_time, flip_interval,
                   last_time, new_time, done, ci, diffs, count, c_last_time,
                   calibTimes, dVars, iters, oplog>>
    /\ UNCHANGED outsideRun

\* print "... %f (%f Hz)" % (self.flip_interval, 1./self.flip_interval); the
\* arguments and locals of the finished _calc_flip_interval call, kept until
\* here, are gone
PrintInterval ==
    /\ pc = "print"
    /\ flip_interval.num # 0
    /\ nflips' = 0
    /\ nignore' = 0
    /\ ci' = 0
    /\ diffs' = 0
    /\ count' = 0
    /\ c_last_time' = [isDict |-> FALSE, time |-> 0]
    /\ calibTimes' = <<>>
    /\ pc' = "baseline"
    /\ UNCHANGED <<nocsv, window, has_exit, key_callbacks,
                   mouse_callbacks, last_event, exp_event_time, flip_interval,
                   last_time, new_time, done, raised, dVars, iters, oplog>>
    /\ UNCHANGED gVars
    /\ UNCHANGED outsideRun

\* the same print with a flip interval of 0.0: 1./0.0 raises ZeroDivisionError
PrintDivZero ==
    /\ pc = "print"
    /\ flip_interval.num = 0
    /\ raised' = "ZeroDivisionError"
    /\ pc' = "aborted"
    /\ UNCHANGED <<nflips, nignore, nocsv, window, has_exit, key_callbacks,
                   mouse_callbacks, last_event, exp_event_time, flip_interval,
                   last_time, new_time, done, ci, diffs, count, c_last_time,
                   calibTimes, dVars, iters, oplog>>
    /\ UNCHANGED gVars
    /\ UNCHANGED outsideRun

\* "first clear and do a flip": window.on_draw(force=True); blocking_flip()
BaselineFlip ==
    /\ pc = "baseline"
    /\ \E d \in Advances : SetGState(blocking_flip(on_draw(GState, TRUE), d))
    /\ oplog' = Append(oplog, "baseline_flip")
    /\ pc' = "enter"
    /\ UNCHANGED <<nflips, nignore, nocsv, window, has_exit, key_callbacks,
                   mouse_callbacks, last_event, exp_event_time, flip_interval,
                   last_time, new_time, done, ci, diffs, count, c_last_time,
                   raised, calibTimes, dVars, iters>>
    /\ UNCHANGED outsideRun

\* self.enter(): the root node starts; a root with nothing to run is done at
\* once, and the nodes entered with it may each register an input callback
Enter ==
    /\ pc = "enter"
    /\ \E d \in BOOLEAN : done' = d
    /\ \E k \in BOOLEAN :
         key_callbacks' = IF k /\ Len(key_callbacks) < MaxCallbacks
                          THEN Append(key_callbacks, Len(key_callbacks) + 1)
                          ELSE key_callbacks
    /\ \E m \in BOOLEAN :
         mouse_callbacks' = IF m /\ Len(mouse_callbacks) < MaxCallbacks
                            THEN Append(mouse_callbacks, Len(mouse_callbacks) + 1)
                            ELSE mouse_callbacks
    /\ oplog' = Append(oplog, "enter")
    /\ pc' = "start_loop"
    /\ UNCHANGED <<nflips, nignore, nocsv, window, has_exit, last_event,
                   exp_event_time, flip_interval, last_time, new_time, ci,
                   diffs, count, c_last_time, raised, calibTimes, dVars,
                   iters>>
    /\ UNCHANGED gVars
    /\ UNCHANGED outsideRun

\* self._last_time = now()
StartLoop ==
    /\ pc = "start_loop"
    /\ \E d \in Advances :
         /\ clock' = clock + d * Halving
         /\ last_time' = clock + d * Halving
    /\ pc' = "loop_top"
    /\ UNCHANGED <<nflips, nignore, nocsv, window, need_flip, need_draw,
                   has_exit, key_callbacks, mouse_callbacks, last_flip,
                   last_event, exp_event_time, flip_interval, new_time, done,
                   ci, diffs, count, c_last_time, raised, calibTimes, dVars,
                   flipCall, drawnSince, iters, oplog>>
    /\ UNCHANGED outsideRun


\* ---- Experiment.run: the event loop ---------------------------------------
\* time_err without the division by 2.
TimeErr_whole(last, new) == new - last

\* "time_err = (self._new_time - self._last_time)/2."
TimeErr(last, new) == (new - last) \div Halving

\* "self.event_time = event_time(self._last_time+time_err, time_err)"
EventWindow(last, new) == event_time(last + TimeErr(last, new), TimeErr(last, new))

\* LoopEnter leaving self.event_time to be assigned after dispatch_events
LoopEnter_assign_late ==
    /\ pc = "loop_top"
    /\ ~done /\ ~has_exit
    /\ \E d \in Advances :
         /\ clock' = clock + d * Halving
         /\ new_time' = clock + d * Halving
    /\ iters' = IF iters < IterCap THEN iters + 1 ELSE iters
    /\ handled_ev' = NoEvent
    /\ calls' = <<>>
    /\ passed' = {}
    /\ oplog' = IF iters = 0 THEN Append(oplog, "iteration") ELSE oplog
    /\ pc' = "dispatch"
    /\ UNCHANGED <<nflips, nignore, nocsv, window, need_flip, need_draw,
                   has_exit, key_callbacks, mouse_callbacks, last_flip,
                   last_event, exp_event_time, flip_interval, last_time, done,
                   ci, diffs, count, c_last_time, raised, calibTimes, flipCall,
                   drawnSince>>
    /\ UNCHANGED outsideRun

\* LoopEnter with the while condition "not self.done" alone
LoopEnter_ignore_exit ==
    /\ pc = "loop_top"
    /\ ~done
    /\ \E d \in Advances :
         /\ clock' = clock + d * Halving
         /\ new_time' = clock + d * Halving
         /\ exp_event_time' = EventWindow(last_time, clock + d * Halving)
    /\ iters' = IF iters < IterCap THEN iters + 1 ELSE iters
    /\ handled_ev' = NoEvent
    /\ calls' = <<>>
    /\ passed' = {}
    /\ oplog' = IF iters = 0 THEN Append(oplog, "iteration") ELSE oplog
    /\ pc' = "dispatch"
    /\ UNCHANGED <<nflips, nignore, nocsv, window, need_flip, need_draw,
                   has_exit, key_callbacks, mouse_callbacks, last_flip,
                   last_event, flip_interval, last_time, done, ci, diffs,
                   count, c_last_time, raised, calibTimes, flipCall,
                   drawnSince>>
    /\ UNCHANGED outsideRun

\* the while condition holds: sample now(), compute self.event_time
LoopEnter ==
    /\ pc = "loop_top"
    /\ ~done /\ ~has_exit
    /\ \E d \in Advances :
         /\ clock' = clock + d * Halving
         /\ new_time' = clock + d * Halving
         /\ exp_event_time' = EventWindow(last_time, clock + d * Halving)
    /\ iters' = IF iters < IterCap THEN iters + 1 ELSE iters
    /\ handled_ev' = NoEvent
    /\ calls' = <<>>
    /\ passed' = {}
    /\ oplog' = IF iters = 0 THEN Append(oplog, "iteration") ELSE oplog
    /\ pc' = "dispatch"
    /\ UNCHANGED <<nflips, nignore, nocsv, window, need_flip, need_draw,
                   has_exit, key_callbacks, mouse_callbacks, last_flip,
                   last_event, flip_interval, last_time, done, ci, diffs,
                   count, c_last_time, raised, calibTimes, flipCall,
                   drawnSince>>
    /\ UNCHANGED outsideRun

\* the while condition fails: the loop is left
LoopExit ==
    /\ pc = "loop_top"
    /\ done \/ has_exit
    /\ pc' = "finalize"
    /\ UNCHANGED <<nflips, nignore, nocsv, window, has_exit, key_callbacks,
                   mouse_callbacks, last_event, exp_event_time, flip_interval,
                   last_time, new_time, done, ci, diffs, count, c_last_time,
                   raised, calibTimes, dVars, iters, oplog>>
    /\ UNCHANGED gVars
    /\ UNCHANGED outsideRun

\* self.window.dispatch_events() hands one more pending event to its handler;
\* the handler reads self.exp.event_time when it calls a callback
DispatchEvent ==
    /\ pc = "dispatch"
    /\ \E ev \in Events :
         LET w == HandleEvent([has_exit |-> has_exit, calls |-> <<>>], ev,
                              exp_event_time)
         IN /\ has_exit' = w.has_exit
            /\ calls' = w.calls
            /\ passed' = passed \cup {[list |-> w.calls[i].list, et |-> w.calls[i].et] :
                                          i \in 1..Len(w.calls)}
            /\ handled_ev' = ev
    /\ UNCHANGED <<pc, nflips, nignore, nocsv, window, key_callbacks,
                   mouse_callbacks, last_event, exp_event_time, flip_interval,
                   last_time, new_time, done, ci, diffs, count, c_last_time,
                   raised, calibTimes, iters, oplog>>
    /\ UNCHANGED gVars
    /\ UNCHANGED outsideRun

\* no event is pending any more: self.window.dispatch_events() returns
DispatchReturn ==
    /\ pc = "dispatch"
    /\ handled_ev' = NoEvent
    /\ calls' = <<>>
    /\ passed' = {}
    /\ pc' = "tick"
    /\ UNCHANGED <<nflips, nignore, nocsv, window, has_exit, key_callbacks,
                   mouse_callbacks, last_event, exp_event_time, flip_interval,
                   last_time, new_time, done, ci, diffs, count, c_last_time,
                   raised, calibTimes, iters, oplog>>
    /\ UNCHANGED gVars
    /\ UNCHANGED outsideRun

\* what the scheduled callbacks of the state tree do to this module's state
TickEffects == {"none", "set_need_draw", "clear_need_draw", "on_draw",
                "blocking_flip", "done", "add_key_callback",
                "add_mouse_callback"}

\* dt = clock.tick(poll=True): the due scheduled callbacks run
Tick ==
    /\ pc = "tick"
    /\ \E eff \in TickEffects :
       \E d \in IF eff = "blocking_flip" /\ need_flip THEN Advances ELSE {0} :
         /\ SetGState(CASE eff = "set_need_draw" -> [GState EXCEPT !.need_draw = TRUE]
                        [] eff = "clear_need_draw" -> [GState EXCEPT !.need_draw = FALSE]
                        [] eff = "on_draw" -> on_draw(GState, FALSE)
                        [] eff = "blocking_flip" -> blocking_flip(GState, d)
                        [] OTHER -> GState)
         /\ done' = IF eff = "done" THEN TRUE ELSE done
         /\ key_callbacks' =
               IF eff = "add_key_callback" /\ Len(key_callbacks) < MaxCallbacks
               THEN Append(key_callbacks, Len(key_callbacks) + 1)
               ELSE key_callbacks
         /\ mouse_callbacks' =
               IF eff = "add_mouse_callback" /\ Len(mouse_callbacks) < MaxCallbacks
               THEN Append(mouse_callbacks, Len(mouse_callbacks) + 1)
               ELSE mouse_callbacks
    /\ pc' = "save"
    /\ UNCHANGED <<nflips, nignore, nocsv, window, has_exit, last_event,
                   exp_event_time, flip_interval, last_time, new_time, ci,
                   diffs, count, c_last_time, raised, calibTimes, dVars,
                   iters, oplog>>
    /\ UNCHANGED outsideRun

\* SaveTime with "self._last_time = now()"
SaveTime_resample ==
    /\ pc = "save"
    /\ \E d \in Advances :
         /\ clock' = clock + d * Halving
         /\ last_time' = clock + d * Halving
    /\ pc' = "loop_top"
    /\ UNCHANGED <<nflips, nignore, nocsv, window, need_flip, need_draw,
                   has_exit, key_callbacks, mouse_callbacks, last_flip,
                   last_event, exp_event_time, flip_interval, new_time, done,
                   ci, diffs, count, c_last_time, raised, calibTimes, dVars,
                   flipCall, drawnSince, iters, oplog>>
    /\ UNCHANGED outsideRun

\* the idle sleep, then "self._last_time = self._new_time"
SaveTime ==
    /\ pc = "save"
    /\ last_time' = new_time
    /\ pc' = "loop_top"
    /\ UNCHANGED <<nflips, nignore, nocsv, window, has_exit, key_callbacks,
                   mouse_callbacks, last_event, exp_event_time, flip_interval,
                   new_time, done, ci, diffs, count, c_last_time, raised,
                   calibTimes, dVars, iters, oplog>>
    /\ UNCHANGED gVars
    /\ UNCHANGED outsideRun

\* ---- Experiment.run: shut-down --------------------------------------------
\* WriteCsv converting each log before flushing its stream
WriteCsv_convert_first ==
    /\ pc = "finalize"
    /\ ~nocsv
    /\ oplog' = oplog \o <<"csv_state", "flush_state", "csv_exp", "flush_exp">>
    /\ pc' = "close"
    /\ UNCHANGED <<nflips, nignore, nocsv, window, has_exit, key_callbacks,
                   mouse_callbacks, last_event, exp_event_time, flip_interval,
                   last_time, new_time, done, ci, diffs, count, c_last_time,
                   raised, calibTimes, dVars, iters>>
    /\ UNCHANGED gVars
    /\ UNCHANGED outsideRun

\* "if not self.nocsv": flush and convert the state log, then the experiment log
WriteCsv ==
    /\ pc = "finalize"
    /\ ~nocsv
    /\ oplog' = oplog \o <<"flush_state", "csv_state", "flush_exp", "csv_exp">>
    /\ pc' = "close"
    /\ UNCHANGED <<nflips, nignore, nocsv, window, has_exit, key_callbacks,
                   mouse_callbacks, last_event, exp_event_time, flip_interval,
                   last_time, new_time, done, ci, diffs, count, c_last_time,
                   raised, calibTimes, dVars, iters>>
    /\ UNCHANGED gVars
    /\ UNCHANGED outsideRun

\* the same "if" with nocsv set: nothing is done
SkipCsv ==
    /\ pc = "finalize"
    /\ nocsv
    /\ pc' = "close"
    /\ UNCHANGED <<nflips, nignore, nocsv, window, has_exit, key_callbacks,
                   mouse_callbacks, last_event, exp_event_time, flip_interval,
                   last_time, new_time, done, ci, diffs, count, c_last_time,
                   raised, calibTimes, dVars, iters, oplog>>
    /\ UNCHANGED gVars
    /\ UNCHANGED outsideRun

\* self.window.close(); self.window = None; run() returns
Close ==
    /\ pc = "close"
    /\ window' = "closed"
    /\ oplog' = Append(oplog, "close")
    /\ pc' = "returned"
    /\ UNCHANGED <<nflips, nignore, nocsv, has_exit, key_callbacks,
                   mouse_callbacks, last_event, exp_event_time, flip_interval,
                   last_time, new_time, done, ci, diffs, count, c_last_time,
                   raised, calibTimes, dVars, iters>>
    /\ UNCHANGED gVars
    /\ UNCHANGED outsideRun

Next ==
    \/ CreateWindow
    \/ CalibBegin
    \/ CalibFlip
    \/ CalibReturn
    \/ CalibDivZero
    \/ PrintInterval
    \/ PrintDivZero
    \/ BaselineFlip
    \/ Enter
    \/ StartLoop
    \/ LoopEnter
    \/ LoopExit
    \/ DispatchEvent
    \/ DispatchReturn
    \/ Tick
    \/ SaveTime
    \/ WriteCsv
    \/ SkipCsv
    \/ Close

Spec == Init /\ [][Next]_vars

\* the control thread keeps running: no step of run() waits for anything but
\* the calls it makes, which return; dispatch_events returns once the events
\* pending at its call are handled
FairSpec == Spec /\ WF_vars(Next) /\ WF_vars(DispatchReturn)

TypeOK ==
    /\ pc \in {"constructed", "calibrate", "calib_loop", "print", "baseline",
               "enter", "start_loop", "loop_top", "dispatch", "tick", "save",
               "finalize", "close", "returned", "aborted"}
    /\ clock \in 0..MaxTime
    /\ window \in {"none", "open", "closed"}
    /\ need_flip \in BOOLEAN /\ need_draw \in BOOLEAN /\ has_exit \in BOOLEAN
    /\ done \in BOOLEAN
    /\ raised \in {"none", "ZeroDivisionError"}


\* ---- the variable nodes: Experiment instances, Set and Get -----------------
\* Experiment.__init__ run once more: a fresh _vars, and last_instance moves on
NewExperiment ==
    /\ Len(exp_vars) < MaxExps
    /\ exp_vars' = Append(exp_vars, EmptyVars)
    /\ last_instance' = Len(exp_vars) + 1
    /\ recent' = Append(recent, EmptyVars)
    /\ got' = NoGot
    /\ UNCHANGED <<ref_store, get_ref, set_outcome, set_kind, ref_sets>>
    /\ UNCHANGED outsideNodes

\* the Experiment objects a node's self.exp may be
NodeExperiments == 1..Len(exp_vars)

\* val(x): a Ref evaluates to its current value, anything else to itself
val(refs, x) == IF x \in RefIds THEN refs[x] ELSE x

\* Ref.set(value)
RefSet(refs, r, value) == [refs EXCEPT ![r] = value]

\* a Set node as Set.__init__ leaves it
SetNode(e, variable, value, eval_var) ==
    [exp |-> e, var |-> variable, val |-> value, eval_var |-> eval_var]

\* Set._callback that, after Ref.set, also stores the value under the name the
\* Ref evaluates to
Set_callback_ref_and_store(node, vs, refs) ==
    LET variable == IF node.eval_var THEN val(refs, node.var) ELSE node.var
        value == val(refs, node.val)
    IN IF variable \in Names
       THEN [exp_vars |-> [vs EXCEPT ![node.exp][variable] = value],
             ref_store |-> refs, sets |-> 0,
             branch |-> "str", variable |-> variable, value |-> value]
       ELSE IF variable \in RefIds
       THEN [exp_vars |-> IF val(refs, variable) \in Names
                          THEN [vs EXCEPT ![node.exp][val(refs, variable)] = value]
                          ELSE vs,
             ref_store |-> RefSet(refs, variable, value), sets |-> 1,
             branch |-> "ref", variable |-> variable, value |-> value]
       ELSE [exp_vars |-> vs, ref_store |-> refs, sets |-> 0,
             branch |-> "ValueError", variable |-> variable, value |-> value]

\* Set._callback with "else: pass" in place of the raise
Set_callback_else_pass(node, vs, refs) ==
    LET variable == IF node.eval_var THEN val(refs, node.var) ELSE node.var
        value == val(refs, node.val)
    IN IF variable \in Names
       THEN [exp_vars |-> [vs EXCEPT ![node.exp][variable] = value],
             ref_store |-> refs, sets |-> 0,
             branch |-> "str", variable |-> variable, value |-> value]
       ELSE IF variable \in RefIds
       THEN [exp_vars |-> vs, ref_store |-> RefSet(refs, variable, value),
             sets |-> 1,
             branch |-> "ref", variable |-> variable, value |-> value]
       ELSE [exp_vars |-> vs, ref_store |-> refs, sets |-> 0,
             branch |-> "returned", variable |-> variable, value |-> value]

\* Set._callback that leaves an existing entry of _vars as it is
Set_callback_keep_first(node, vs, refs) ==
    LET variable == IF node.eval_var THEN val(refs, node.var) ELSE node.var
        value == val(refs, node.val)
    IN IF variable \in Names
       THEN [exp_vars |-> IF vs[node.exp][variable] = Unset
                          THEN [vs EXCEPT ![node.exp][variable] = value]
                          ELSE vs,
             ref_store |-> refs, sets |-> 0,
             branch |-> "str", variable |-> variable, value |-> value]
       ELSE IF variable \in RefIds
       THEN [exp_vars |-> vs, ref_store |-> RefSet(refs, variable, value),
             sets |-> 1,
             branch |-> "ref", variable |-> variable, value |-> value]
       ELSE [exp_vars |-> vs, ref_store |-> refs, sets |-> 0,
             branch |-> "ValueError", variable |-> variable, value |-> value]

\* Set._callback: vs are the _vars of all experiments, refs the Ref values
Set_callback(node, vs, refs) ==
    LET variable == IF node.eval_var THEN val(refs, node.var) ELSE node.var
        value == val(refs, node.val)
    IN IF variable \in Names
       THEN [exp_vars |-> [vs EXCEPT ![node.exp][variable] = value],
             ref_store |-> refs, sets |-> 0,
             branch |-> "str", variable |-> variable, value |-> value]
       ELSE IF variable \in RefIds
       THEN [exp_vars |-> vs, ref_store |-> RefSet(refs, variable, value),
             sets |-> 1,
             branch |-> "ref", variable |-> variable, value |-> value]
       ELSE [exp_vars |-> vs, ref_store |-> refs, sets |-> 0,
             branch |-> "ValueError", variable |-> variable, value |-> value]

\* what the variable of a Set node resolves to when the node is activated:
\* a Python str, a Ref, or anything else
VariableKind(node, refs) ==
    LET variable == IF node.eval_var THEN val(refs, node.var) ELSE node.var
    IN IF variable \in Names THEN "str"
       ELSE IF variable \in RefIds THEN "ref" ELSE "other"

\* a Set node is entered: RunOnEnter runs its _callback
ActivateSet ==
    /\ \E e \in NodeExperiments, variable \in VarExprs, value \in ValExprs,
          eval_var \in BOOLEAN :
         LET node == SetNode(e, variable, value, eval_var)
             r == Set_callback(node, exp_vars, ref_store)
         IN /\ exp_vars' = r.exp_vars
            /\ ref_store' = r.ref_store
            /\ set_outcome' = r.branch
            /\ set_kind' = VariableKind(node, ref_store)
            /\ ref_sets' = r.sets
            /\ recent' = IF r.branch = "str"
                         THEN [recent EXCEPT ![e][r.variable] = r.value]
                         ELSE recent
            /\ get_ref' = IF get_ref.exists /\ r.branch = "str" /\ e = last_instance
                          THEN [get_ref EXCEPT !.older = TRUE]
                          ELSE get_ref
    /\ got' = NoGot
    /\ UNCHANGED last_instance
    /\ UNCHANGED outsideNodes

\* Get(variable): a Ref whose gfunc is not evaluated yet
CreateGet ==
    /\ \E variable \in Names \cup RefIds :
         get_ref' = [exists |-> TRUE, var |-> variable, older |-> FALSE]
    /\ got' = NoGot
    /\ UNCHANGED <<exp_vars, last_instance, ref_store, set_outcome, set_kind,
                   ref_sets, recent>>
    /\ UNCHANGED outsideNodes

\* gfunc reading the _vars of the first Experiment constructed
gfunc_first_instance(variable, vs, last, refs) ==
    LET name == val(refs, variable)
    IN IF name \in Names /\ vs[1][name] # Unset
       THEN [name |-> name, outcome |-> "value", value |-> vs[1][name]]
       ELSE [name |-> name, outcome |-> "KeyError", value |-> Unset]

\* "Experiment.last_instance()._vars[val(variable)]"
gfunc(variable, vs, last, refs) ==
    LET name == val(refs, variable)
    IN IF name \in Names /\ vs[last][name] # Unset
       THEN [name |-> name, outcome |-> "value", value |-> vs[last][name]]
       ELSE [name |-> name, outcome |-> "KeyError", value |-> Unset]

\* the reference returned by Get is resolved
ResolveGet ==
    /\ get_ref.exists
    /\ LET r == gfunc(get_ref.var, exp_vars, last_instance, ref_store)
       IN got' = [valid |-> TRUE, name |-> r.name, outcome |-> r.outcome,
                  value |-> r.value, older |-> get_ref.older]
    /\ UNCHANGED <<exp_vars, last_instance, ref_store, get_ref, set_outcome,
                   set_kind, ref_sets, recent>>
    /\ UNCHANGED outsideNodes

\* run() has not been called
RunQuiet == RunInit /\ nflips = 0 /\ nignore = 0 /\ nocsv = FALSE

\* one Experiment constructed, the Ref handle holding a string or a number
NodeInit ==
    /\ exp_vars = <<EmptyVars>>
    /\ last_instance = 1
    /\ ref_store \in [RefIds -> RefStartValues]
    /\ get_ref = NoRef
    /\ got = NoGot
    /\ set_outcome = "none"
    /\ set_kind = "none"
    /\ ref_sets = 0
    /\ recent = <<EmptyVars>>

InitNodes == RunQuiet /\ NodeInit /\ LogQuiet /\ ArgsQuiet

NextNodes ==
    \/ NewExperiment
    \/ ActivateSet
    \/ CreateGet
    \/ ResolveGet

SpecNodes == InitNodes /\ [][NextNodes]_vars

\* ---- the Log nodes ----------------------------------------------------------
\* a Log node as Log.__init__ leaves it: save_log=False is handed to State
LogNode(log_dict, log_file, log_items) ==
    [happened |-> TRUE, log_items |-> log_items, log_dict |-> log_dict,
     log_file |-> log_file, save_log |-> FALSE]

\* val(d) of a dictionary d: its values are evaluated
ValDict(refs, d) == [k \in LogKeys |-> IF d[k] = Unset THEN Unset ELSE val(refs, d[k])]

\* "log.update(other)": the entries of other replace or extend those of log
DictUpdate(log, other) == [k \in LogKeys |-> IF other[k] # Unset THEN other[k] ELSE log[k]]

\* "if self.log_dict": neither None nor an empty dictionary
Truthy(log_dict) == log_dict.given /\ \E k \in LogKeys : log_dict.d[k] # Unset

\* the record of Log._callback with log_items written over log_dict
LogRecord_items_win(node, refs) ==
    LET log == ValDict(refs, node.log_items)
    IN IF Truthy(node.log_dict)
       THEN DictUpdate(ValDict(refs, node.log_dict.d), log)
       ELSE log

\* the record Log._callback builds: the evaluated log_items, updated with
\* the evaluated log_dict
LogRecord(node, refs) ==
    LET log == ValDict(refs, node.log_items)
    IN IF Truthy(node.log_dict)
       THEN DictUpdate(log, ValDict(refs, node.log_dict.d))
       ELSE log

\* Log._get_stream: the experiment's stream, or a stream opened now on the
\* named file; n is the number of streams opened to that file before
get_stream(node, n) ==
    IF node.log_file = NoFile
    THEN [named |-> FALSE, stream |-> 0, opened |-> 0]
    ELSE [named |-> TRUE, stream |-> n + 1, opened |-> 1]

\* a Log node is entered: RunOnEnter runs its _callback, which dumps one
\* record to the stream of _get_stream.  No name is bound to a stream opened
\* by _get_stream once dump has returned: it is closed when the interpreter
\* collects it, which is at once or at any later time.
ActivateLog ==
    /\ Len(exp_log) + Len(file_log) < MaxLogs
    /\ \E log_items \in LogItemSets, log_dict \in LogDicts,
          log_file \in {NoFile} \cup LogFiles, collected \in BOOLEAN :
         LET node == LogNode(log_dict, log_file, log_items)
             rec == LogRecord(node, ref_store)
             st == get_stream(node, n_opened)
         IN /\ exp_log' = IF st.named THEN exp_log ELSE Append(exp_log, rec)
            /\ file_log' = IF st.named
                           THEN Append(file_log, [stream |-> st.stream, rec |-> rec])
                           ELSE file_log
            /\ n_opened' = n_opened + st.opened
            /\ open_streams' = IF st.named /\ ~collected
                               THEN open_streams \cup {st.stream}
                               ELSE open_streams
            /\ state_log' = state_log + (IF node.save_log THEN 1 ELSE 0)
            /\ last_log' = node
    /\ UNCHANGED <<runVars, nodeVars, argVars>>

\* the interpreter collects a stream no name is bound to, which closes it
CollectStream ==
    /\ \E st \in open_streams : open_streams' = open_streams \ {st}
    /\ UNCHANGED <<exp_log, state_log, file_log, n_opened, last_log>>
    /\ UNCHANGED <<runVars, nodeVars, argVars>>

InitLog == RunQuiet /\ NodeInit /\ LogQuiet /\ ArgsQuiet

NextLog ==
    \/ ActivateLog
    \/ CollectStream

SpecLog == InitLog /\ [][NextLog]_vars

\* ---- the window handlers on their own ---------------------------------------
\* the callbacks the states of an experiment may register
CallbackIds == 1..MaxRegistered

\* a state of the experiment appends a callback to window.key_callbacks or
\* to window.mouse_callbacks
RegisterCallback ==
    /\ pc = "dispatch"
    /\ \E c \in CallbackIds :
         \/ /\ Len(key_callbacks) < MaxRegistered
            /\ key_callbacks' = Append(key_callbacks, c)
            /\ UNCHANGED mouse_callbacks
         \/ /\ Len(mouse_callbacks) < MaxRegistered
            /\ mouse_callbacks' = Append(mouse_callbacks, c)
            /\ UNCHANGED key_callbacks
    /\ UNCHANGED <<pc, nflips, nignore, nocsv, window, has_exit, last_event,
                   exp_event_time, flip_interval, last_time, new_time, done,
                   ci, diffs, count, c_last_time, raised, calibTimes, dVars,
                   iters, oplog>>
    /\ UNCHANGED gVars
    /\ UNCHANGED outsideRun

\* run() inside the dispatch_events call of its first iteration: the
\* calibration and the first flip are done (flips at 2, 4 and 4), the root is
\* entered, _last_time is 4 and _new_time is 6
RunInLoop ==
    /\ pc = "dispatch"
    /\ nflips = 0 /\ nignore = 0
    /\ nocsv = FALSE
    /\ clock = 6
    /\ window = "open"
    /\ need_flip = FALSE /\ need_draw = FALSE
    /\ has_exit = FALSE
    /\ key_callbacks = <<>> /\ mouse_callbacks = <<>>
    /\ last_flip = event_time(4, 0)
    /\ last_event = event_time(0, 0)
    /\ exp_event_time = EventWindow(4, 6)
    /\ flip_interval = Fraction(2, 1)
    /\ last_time = 4 /\ new_time = 6
    /\ done = FALSE
    /\ ci = 0 /\ diffs = 0 /\ count = 0
    /\ c_last_time = [isDict |-> FALSE, time |-> 0]
    /\ raised = "none"
    /\ calibTimes = <<>>
    /\ handled_ev = NoEvent /\ calls = <<>> /\ passed = {}
    /\ flipCall = [called |-> TRUE, ret |-> event_time(4, 0), swapped |-> TRUE,
                   sampled |-> TRUE, afterDraw |-> TRUE, hasPrev |-> TRUE,
                   prevRet |-> event_time(4, 0), flipBefore |-> event_time(4, 0),
                   flipAfter |-> event_time(4, 0), needBefore |-> TRUE,
                   needAfter |-> FALSE, steps |-> FlipSteps, finished |-> 4]
    /\ drawnSince = FALSE
    /\ iters = 1
    /\ oplog = <<"surface", "bgcolor", "calibrate_begin", "calibrate_end",
                 "baseline_flip", "enter", "iteration">>

InitWindow == RunInLoop /\ NodeQuiet /\ LogQuiet /\ ArgsQuiet

NextWindow ==
    \/ RegisterCallback
    \/ DispatchEvent

SpecWindow == InitWindow /\ [][NextWindow]_vars

\* ---- Experiment.__init__: the command line and the screen -------------------
\* what the command line may hold: --screen absent or given with an index,
\* --fullscreen absent or given
CommandLines ==
    {a \in [screen_given : BOOLEAN, screen : 0..MaxScreen, fullscreen : BOOLEAN] :
        ~a.screen_given => a.screen = ScreenDefault}

\* the arguments screen_ind and fullscreen of the constructor
CtorArgs == [screen_ind : 0..MaxScreen, fullscreen : BOOLEAN]

\* _process_args: argparse yields the default of --screen when it is absent
ProcessArgs ==
    /\ apc = "start"
    /\ parsed' = [screen_ind |-> IF argv.screen_given THEN argv.screen ELSE ScreenDefault,
                  fullscreen |-> argv.fullscreen]
    /\ apc' = "parsed"
    /\ UNCHANGED <<argv, ctor, exp_screen, exp_fullscreen>>
    /\ UNCHANGED <<runVars, nodeVars, logVars>>

\* "if screen_ind != self.screen_ind: screen_ind = self.screen_ind"
ScreenInd(screen_ind, self_screen_ind) ==
    IF screen_ind # self_screen_ind THEN self_screen_ind ELSE screen_ind

\* "set up the window": self.screen and self.fullscreen
SetUpWindow ==
    /\ apc = "parsed"
    /\ exp_screen' = ScreenInd(ctor.screen_ind, parsed.screen_ind)
    /\ exp_fullscreen' = (ctor.fullscreen \/ parsed.fullscreen)
    /\ apc' = "constructed"
    /\ UNCHANGED <<argv, ctor, parsed>>
    /\ UNCHANGED <<runVars, nodeVars, logVars>>

\* the constructor is called: any command line, any constructor arguments
ArgsInit ==
    /\ argv \in CommandLines
    /\ ctor \in CtorArgs
    /\ parsed = [screen_ind |-> ScreenDefault, fullscreen |-> FALSE]
    /\ exp_screen = 0
    /\ exp_fullscreen = FALSE
    /\ apc = "start"

InitArgs == RunQuiet /\ NodeQuiet /\ LogQuiet /\ ArgsInit

NextArgs ==
    \/ ProcessArgs
    \/ SetUpWindow

SpecArgs == InitArgs /\ [][NextArgs]_vars

\* ---- properties of the event loop -----------------------------------------
InIteration == pc \in {"dispatch", "tick", "save"}

\* C1: in every iteration of the event loop, self.event_time has its time
\* within [_last_time, _new_time] and its error equal to
\* (_new_time - _last_time)/2.
C1_EventWindowWithinSamples ==
    (InIteration /\ last_time <= new_time) =>
        /\ last_time <= exp_event_time.time
        /\ exp_event_time.time <= new_time
        /\ exp_event_time.error * Halving = new_time - last_time

\* an iteration whose two clock samples differ
C1_Witness == InIteration /\ last_time < new_time /\ exp_event_time.error > 0

\* C2: the upper edge (time + error) of one iteration's window equals the
\* lower edge (time - error) of the next iteration's window.
C2_WindowsContiguous ==
    [][(pc = "loop_top" /\ pc' = "dispatch" /\ iters >= 1) =>
          exp_event_time.time + exp_event_time.error
              = exp_event_time'.time - exp_event_time'.error]_vars

\* a second or later iteration, with a window of positive width, after a
\* scheduled callback has flipped in between
C2_Witness ==
    /\ pc = "dispatch" /\ iters >= 2
    /\ exp_event_time.error > 0
    /\ last_flip.time >= exp_event_time.time - exp_event_time.error
    /\ flipCall.called /\ ~flipCall.swapped

\* C3: every key-press and mouse-press callback invoked while the pending
\* events of one iteration are dispatched receives the EventTimeWindow
\* computed at the start of that iteration.
C3_CallbacksShareWindow ==
    pc = "dispatch" =>
        /\ \A c \in passed : c.et = EventWindow(last_time, new_time)
        /\ \A i \in 1..Len(calls) : calls[i].et = EventWindow(last_time, new_time)

\* a key-press and a mouse-press event were handled in one iteration, key and
\* mouse callbacks were invoked, and the window has a positive width
C3_Witness ==
    /\ pc = "dispatch" /\ Len(calls) >= 1
    /\ \E c, e \in passed : c.list = "key" /\ e.list = "mouse"
    /\ exp_event_time.error > 0

\* C4: a blocking_flip call that follows another with no draw in between
\* returns the same FlipRecord, requests no swap, samples no timestamp and
\* leaves last_flip and need_flip as they were.
C4_FlipTwiceIdentical ==
    (flipCall.called /\ flipCall.hasPrev /\ ~flipCall.afterDraw) =>
        /\ flipCall.ret = flipCall.prevRet
        /\ ~flipCall.swapped
        /\ ~flipCall.sampled
        /\ flipCall.flipAfter = flipCall.flipBefore
        /\ flipCall.needAfter = flipCall.needBefore

\* the second of two such calls has returned, while the clock has moved on
\* since the first
C4_Witness ==
    /\ flipCall.called /\ flipCall.hasPrev /\ ~flipCall.afterDraw
    /\ flipCall.ret.time > 0
    /\ clock > flipCall.ret.time

\* ---- properties of the calibration ----------------------------------------
\* the sum of ts[i+1] - ts[i] over the samples i in a..b, ts[i+1] being the
\* timestamp of sample i (samples count from 0)
RECURSIVE SumDeltas(_, _, _)
SumDeltas(ts, a, b) ==
    IF a > b THEN 0 ELSE (ts[a + 1] - ts[a]) + SumDeltas(ts, a + 1, b)

\* C5: with 0 < nignore < nflips the calibration returns the sum of the
\* differences between the timestamps of flips i-1 and i for i in
\* nignore..nflips-1, divided by nflips - nignore.
C5_MeanOfPostWarmupDeltas ==
    (pc = "print" /\ 0 < nignore /\ nignore < nflips) =>
        /\ Len(calibTimes) = nflips
        /\ flip_interval = Fraction(SumDeltas(calibTimes, nignore, nflips - 1),
                                    nflips - nignore)

\* a calibration whose warm-up delta and whose counted delta are both positive
C5_Witness ==
    /\ pc = "print" /\ 0 < nignore /\ nignore < nflips
    /\ calibTimes[nignore] > calibTimes[1] \/ nignore = 1
    /\ calibTimes[2] > calibTimes[1]
    /\ flip_interval.num > 0

\* C6: a calibration that collects no valid delta fails with a calibration
\* error: it never divides by zero and never returns a non-positive interval.
C6_CalibrationFailsFast ==
    /\ raised # "ZeroDivisionError"
    /\ pc = "print" => flip_interval.num > 0

\* ---- properties of the order of run() -------------------------------------
IsPrefix(s, t) == Len(s) <= Len(t) /\ \A i \in 1..Len(s) : s[i] = t[i]

Position(s, x) == IF \E i \in 1..Len(s) : s[i] = x
                  THEN CHOOSE i \in 1..Len(s) : s[i] = x
                  ELSE 0

Happened(x) == Position(oplog, x) > 0

StartUpSteps == {"surface", "bgcolor", "calibrate_begin", "calibrate_end",
                 "baseline_flip", "enter", "iteration"}

ShutDownSteps == {"flush_state", "csv_state", "flush_exp", "csv_exp", "close"}

IsStartUp(x) == x \in StartUpSteps

IsShutDown(x) == x \in ShutDownSteps

\* C7 as stated: the baseline forced draw + flip precedes the calibration,
\* and the root node is not entered before the calibration has returned.
C7_BaselineBeforeCalibration ==
    /\ Happened("calibrate_begin") =>
          /\ Happened("baseline_flip")
          /\ Position(oplog, "baseline_flip") < Position(oplog, "calibrate_begin")
    /\ Happened("enter") =>
          /\ Happened("calibrate_end")
          /\ Position(oplog, "calibrate_end") < Position(oplog, "enter")

\* C7 amended: the start-up steps are taken in the order surface and
\* background color, calibration, forced draw + blocking flip, root entry,
\* first iteration.
C7_StartUpOrder ==
    IsPrefix(SelectSeq(oplog, IsStartUp),
             <<"surface", "bgcolor", "calibrate_begin", "calibrate_end",
               "baseline_flip", "enter", "iteration">>)

\* the first iteration has begun
C7_Witness == pc = "dispatch" /\ iters = 1 /\ Happened("iteration")

\* C8 as stated: when run() has closed the surface both streams were flushed
\* before, with or without CSV export, and each conversion ran if and only
\* if CSV export is enabled, after its stream's flush.
C8_FlushAlways ==
    pc = "returned" =>
        /\ Happened("flush_state") /\ Happened("flush_exp")
        /\ Position(oplog, "flush_state") < Position(oplog, "close")
        /\ Position(oplog, "flush_exp") < Position(oplog, "close")
        /\ Happened("csv_state") <=> ~nocsv
        /\ Happened("csv_exp") <=> ~nocsv
        /\ ~nocsv => /\ Position(oplog, "flush_state") < Position(oplog, "csv_state")
                     /\ Position(oplog, "flush_exp") < Position(oplog, "csv_exp")

\* C8 amended: with CSV export enabled run() flushes and converts the state
\* log, flushes and converts the experiment log, then closes the surface;
\* with --nocsv it closes the surface without flushing either stream.
C8_FlushOnlyWithCsv ==
    pc = "returned" =>
        SelectSeq(oplog, IsShutDown) =
            IF nocsv THEN <<"close">>
            ELSE <<"flush_state", "csv_state", "flush_exp", "csv_exp", "close">>

\* run() has returned after an external termination with --nocsv
C8_Witness == pc = "returned" /\ nocsv /\ has_exit /\ ~done /\ window = "closed"

\* ---- the loop as a state machine ------------------------------------------
LoopDone == pc \in {"finalize", "close", "returned"}

\* C9: at the top-of-loop check a new iteration starts if and only if the
\* root is not done and the surface has not requested exit, otherwise the
\* loop is DONE; DONE is never left and nothing is dispatched or drained in
\* it; once the root is done or exit is requested, run() eventually closes
\* the surface and returns.
C9_LoopStateMachine ==
    /\ [][pc = "loop_top" =>
             /\ (pc' = "dispatch") <=> (~done /\ ~has_exit)
             /\ (pc' = "finalize") <=> (done \/ has_exit)]_vars
    /\ [][LoopDone =>
             /\ LoopDone'
             /\ pc' \notin {"dispatch", "tick"}
             /\ dVars' = dVars /\ has_exit' = has_exit /\ done' = done
             /\ key_callbacks' = key_callbacks
             /\ mouse_callbacks' = mouse_callbacks]_vars
    /\ (done \/ has_exit) ~> (pc = "returned" /\ window = "closed")

\* run() has returned because the root reported done in a later iteration
C9_Witness == pc = "returned" /\ done /\ ~has_exit /\ iters >= 2


\* ---- properties of Set and Get --------------------------------------------
\* C10 as stated: once a Set node with the string name x and the value v has
\* been activated, resolving Get(x) yields v.
C10_GetYieldsLastSet ==
    [][\A e \in 1..Len(exp_vars), x \in Names :
          (Len(exp_vars') = Len(exp_vars) /\ exp_vars'[e][x] # exp_vars[e][x]) =>
              gfunc(x, exp_vars', last_instance', ref_store')
                  = [name |-> x, outcome |-> "value", value |-> exp_vars'[e][x]]]_vars

\* C10 amended: once a Set node of the most recently constructed Experiment
\* with the string name x has been activated, resolving Get(x) yields the
\* value of the most recent such Set, also through a reference created
\* before that Set.
C10_GetYieldsLastSetOfLatest ==
    (got.valid /\ got.name \in Names /\ recent[last_instance][got.name] # Unset) =>
        got.outcome = "value" /\ got.value = recent[last_instance][got.name]

\* a reference created before a Set was resolved after it and yields the value
\* set in the latest Experiment, which is not the value an earlier Experiment
\* holds under that name
C10_Witness ==
    /\ got.valid /\ got.older /\ got.outcome = "value"
    /\ set_outcome = "str" /\ last_instance > 1
    /\ exp_vars[1][got.name] \notin {Unset, got.value}

\* C11: when the variable of a Set node resolves to a Ref, the activation
\* calls that handle's set(value) exactly once and leaves every _vars
\* dictionary as it was: no key added, no value modified.
C11_RefSetLeavesStore ==
    [][(set_kind' = "ref" /\ Len(exp_vars') = Len(exp_vars)) =>
          /\ set_outcome' = "ref"
          /\ ref_sets' = 1
          /\ exp_vars' = exp_vars
          /\ \E r \in RefIds, v \in Concrete : ref_store' = RefSet(ref_store, r, v)]_vars

\* a Set on the Ref handle has been activated while a _vars dictionary holds a
\* value: the handle now evaluates to the number set, the dictionary is as
\* the earlier Sets left it
C11_Witness ==
    /\ set_kind = "ref" /\ set_outcome = "ref" /\ ref_sets = 1
    /\ ref_store["ref"] \in Numbers
    /\ exp_vars[last_instance] # EmptyVars
    /\ exp_vars = recent

\* C12: activating a Set node whose resolved variable is neither a string nor
\* a Ref raises ValueError, and every _vars dictionary, whatever it held, and
\* every Ref are the same before and after the activation.
C12_InvalidVariableRaises ==
    [][(set_kind' = "other" /\ Len(exp_vars') = Len(exp_vars)) =>
          /\ set_outcome' = "ValueError"
          /\ ref_sets' = 0
          /\ exp_vars' = exp_vars
          /\ ref_store' = ref_store]_vars

\* a Set whose variable is a number has raised while a _vars dictionary holds
\* two values
C12_Witness ==
    /\ set_kind = "other" /\ set_outcome = "ValueError"
    /\ \E e \in 1..Len(exp_vars) : exp_vars[e]["x"] # Unset /\ exp_vars[e]["y"] # Unset

\* ---- properties of the Log nodes ------------------------------------------
\* C13: each activation of a Log node with no log_file appends exactly one
\* record to the experiment log stream and none to the state log; the record
\* holds every key of log_items and of log_dict with its value evaluated at
\* the activation, and the log_dict value where a key is in both.
C13_LogAppendsOneRecord ==
    [][(last_log'.log_file = NoFile /\ <<exp_log, file_log, last_log>>' # <<exp_log, file_log, last_log>>) =>
          /\ Len(exp_log') = Len(exp_log) + 1
          /\ SubSeq(exp_log', 1, Len(exp_log)) = exp_log
          /\ state_log' = state_log
          /\ file_log' = file_log
          /\ LET rec == exp_log'[Len(exp_log')]
                 items == last_log'.log_items
                 dict == last_log'.log_dict
             IN \A k \in LogKeys :
                  rec[k] = IF dict.given /\ dict.d[k] # Unset
                           THEN val(ref_store, dict.d[k])
                           ELSE IF items[k] # Unset
                           THEN val(ref_store, items[k])
                           ELSE Unset]_vars

\* two records are in the experiment log; the last activation had a key in
\* both log_items and log_dict with different values, and a Ref under the
\* other key
C13_Witness ==
    /\ Len(exp_log) = 2 /\ state_log = 0
    /\ last_log.happened /\ last_log.log_file = NoFile
    /\ last_log.log_dict.given
    /\ last_log.log_items["stim"] = "5"
    /\ last_log.log_dict.d["stim"] = "7"
    /\ last_log.log_items["response"] = "ref"
    /\ exp_log[2]["stim"] = "7"
    /\ exp_log[2]["response"] = ref_store["ref"]

\* C14: across the activations of Log nodes naming the same file, at most one
\* stream to that file is open at any time and every record is appended
\* through the same stream.
C14_OneStreamPerFile ==
    /\ Cardinality(open_streams) <= 1
    /\ \A i, j \in 1..Len(file_log) : file_log[i].stream = file_log[j].stream

\* ---- properties of a failed calibration -----------------------------------
\* C15: if the flip-interval calibration fails inside run(), run() is aborted:
\* the root node is never entered, no iteration of the event loop executes,
\* and no input or scheduled callback is invoked.
C15_CalibrationFailureAborts ==
    raised # "none" =>
        /\ pc = "aborted"
        /\ ~Happened("enter")
        /\ ~Happened("baseline_flip")
        /\ ~Happened("iteration") /\ iters = 0
        /\ calls = <<>> /\ passed = {} /\ handled_ev = NoEvent
        /\ exp_event_time = Unassigned
        /\ ~done

\* the calibration has flipped the open window and then failed
C15_Witness ==
    /\ raised = "ZeroDivisionError" /\ pc = "aborted"
    /\ window = "open" /\ Happened("calibrate_begin")
    /\ flipCall.called

\* ---- properties of the constructor ----------------------------------------
\* C16: the screen used is the --screen value when one is given on the
\* command line and otherwise the screen_ind passed to the constructor;
\* fullscreen is on if the constructor argument or --fullscreen requests it.
C16_ScreenPrecedence ==
    apc = "constructed" =>
        /\ exp_screen = IF argv.screen_given THEN argv.screen ELSE ctor.screen_ind
        /\ exp_fullscreen = (ctor.fullscreen \/ argv.fullscreen)

\* ---- properties of blocking_flip ------------------------------------------
\* C17: a blocking_flip call that finds need_flip set requests the swap,
\* waits for glFinish, samples now() and stores it as last_flip with error 0,
\* clears need_flip and returns last_flip, in this order; need_flip is false
\* after every return, and the timestamp is what the clock showed no earlier
\* than the return of glFinish.
C17_FlipOrder ==
    flipCall.called =>
        /\ ~flipCall.needAfter
        /\ flipCall.ret = flipCall.flipAfter
        /\ flipCall.needBefore =>
              /\ flipCall.steps = <<"flip", "glFinish", "now", "set_last_flip",
                                    "clear_need_flip", "return">>
              /\ flipCall.swapped /\ flipCall.sampled
              /\ flipCall.ret.error = 0
              /\ flipCall.ret.time >= flipCall.finished
        /\ ~flipCall.needBefore => flipCall.steps = <<"return">>

\* a call found need_flip set and the swap took time: the timestamp is later
\* than the previous flip record and no later than the clock
C17_Witness ==
    /\ flipCall.called /\ flipCall.needBefore /\ flipCall.swapped
    /\ flipCall.hasPrev
    /\ flipCall.ret.time > flipCall.flipBefore.time
    /\ flipCall.flipBefore.time > 0
    /\ flipCall.ret.time = flipCall.finished

\* C18: last_flip changes only in a blocking_flip call that performed a swap:
\* no other step (on_draw, the dispatch of an input event, the steps of an
\* iteration, the scheduled callbacks) changes it; across every step its time
\* does not decrease and its error is 0.
C18_FlipRecordOnlyByFlip ==
    [][/\ last_flip' # last_flip =>
             /\ flipCall'.called /\ flipCall'.swapped
             /\ flipCall'.needBefore
             /\ flipCall'.flipBefore = last_flip
             /\ flipCall'.flipAfter = last_flip'
       /\ last_flip'.time >= last_flip.time
       /\ last_flip.error = 0 /\ last_flip'.error = 0]_vars

\* in the second or a later iteration, after a flip and a later draw: the
\* clock has moved on, last_flip is still the record of that flip
C18_Witness ==
    /\ pc = "dispatch" /\ iters >= 2 /\ handled_ev.kind = "key_press"
    /\ flipCall.called /\ flipCall.swapped /\ flipCall.hasPrev
    /\ last_flip = flipCall.ret
    /\ last_flip.time > 0
    /\ clock > last_flip.time
    /\ drawnSince /\ need_flip

\* ---- properties of the input handlers -------------------------------------
\* the invocations the handler of ev is to make
ExpectedCalls(ev) ==
    CASE ev.kind = "key_press" ->
           [i \in 1..Len(key_callbacks) |->
               [list |-> "key", cb |-> key_callbacks[i], ev |-> ev, et |-> exp_event_time]]
      [] ev.kind = "mouse_press" ->
           [i \in 1..Len(mouse_callbacks) |->
               [list |-> "mouse", cb |-> mouse_callbacks[i], ev |-> ev, et |-> exp_event_time]]
      [] OTHER -> <<>>

\* C19: on each key-press event every registered key callback is invoked
\* exactly once, in registration order, with the event and the current
\* self.event_time, likewise every mouse callback on each mouse-press event;
\* key-release, mouse-motion, mouse-release, mouse-drag and mouse-scroll
\* events invoke no callback.
C19_CallbacksInRegistrationOrder ==
    [][(pc = "dispatch" /\ pc' = "dispatch"
        /\ key_callbacks' = key_callbacks /\ mouse_callbacks' = mouse_callbacks) =>
          calls' = ExpectedCalls(handled_ev')]_vars

\* a key press was handled with two key callbacks registered, the second
\* registered first, and a mouse callback registered as well
C19_Witness ==
    /\ pc = "dispatch" /\ handled_ev.kind = "key_press"
    /\ key_callbacks = <<2, 1>>
    /\ Len(calls) = 2 /\ calls[1].cb = 2 /\ calls[2].cb = 1
    /\ Len(mouse_callbacks) >= 1

\* ---- properties of Get across Experiment instances ------------------------
\* C20: Get resolves against the _vars of the most recently constructed
\* Experiment, whatever the other instances hold, while every Set writes
\* into the _vars of its own node's experiment: a Set activated under an
\* earlier instance is not seen by Get.
C20_GetReadsLatestInstance ==
    /\ exp_vars = recent
    /\ (got.valid /\ got.name \in Names) =>
          IF exp_vars[last_instance][got.name] # Unset
          THEN got.outcome = "value" /\ got.value = exp_vars[last_instance][got.name]
          ELSE got.outcome = "KeyError" /\ got.value = Unset

\* two Experiments exist, a Set has stored a value under the earlier one, the
\* latest holds nothing, and resolving Get of that name found no entry
C20_Witness ==
    /\ last_instance = 2 /\ Len(exp_vars) = 2
    /\ got.valid /\ got.name \in Names /\ got.outcome = "KeyError"
    /\ set_outcome = "str"
    /\ exp_vars[1][got.name] \in Numbers
    /\ exp_vars[2] = EmptyVars

\* the positions of run() before the first iteration of the event loop
BeforeLoop == pc \in {"constructed", "calibrate", "calib_loop", "print",
                      "baseline", "enter", "start_loop", "aborted"}

\* C21: the constructor leaves self.event_time unassigned, setting only
\* last_event and last_flip; the attribute is assigned first by the first loop
\* iteration; no input event reaches a handler during window creation,
\* calibration, the baseline flip or root entry, and every key or mouse
\* callback invoked is handed an event time that has been assigned.
C21_EventTimeAssignedBeforeCallbacks ==
    /\ pc = "constructed" =>
          /\ exp_event_time = Unassigned
          /\ last_event = event_time(0, 0)
          /\ last_flip = event_time(0, 0)
    /\ (exp_event_time = Unassigned) <=> (iters = 0)
    /\ BeforeLoop => iters = 0 /\ handled_ev = NoEvent /\ calls = <<>>
    /\ calls # <<>> => pc = "dispatch" /\ exp_event_time # Unassigned
    /\ \A i \in 1..Len(calls) : calls[i].et = exp_event_time

\* a callback registered at root entry is invoked in the first iteration
C21_Witness ==
    /\ pc = "dispatch"
    /\ iters = 1
    /\ Len(calls) = 1
    /\ calls[1].list = "key"
    /\ calls[1].et # Unassigned

\* a press of Escape with Shift among the modifiers held
IsExitKey(ev) == ev.kind = "key_press" /\ ev.symbol = "ESCAPE" /\ "SHIFT" \in ev.mod

\* C22: window.has_exit changes only by the handling of a key press of Escape
\* with Shift held, which sets it, and no other key press sets it; that key
\* press is handed to every registered key callback like any other; once the
\* flag is set the iteration goes on through the remaining events, the
\* scheduled callbacks and the saving of the time, and the loop is left only
\* by the test at the top of the loop.
C22_ExitKeyFinishesIteration ==
    [][/\ has_exit' # has_exit =>
             /\ pc = "dispatch" /\ pc' = "dispatch"
             /\ IsExitKey(handled_ev')
             /\ has_exit'
       /\ (pc = "dispatch" /\ pc' = "dispatch" /\ handled_ev'.kind = "key_press") =>
             /\ has_exit' <=> (has_exit \/ IsExitKey(handled_ev'))
             /\ Len(calls') = Len(key_callbacks)
             /\ \A i \in 1..Len(calls') :
                   calls'[i] = [list |-> "key", cb |-> key_callbacks[i],
                                ev |-> handled_ev', et |-> exp_event_time]
       /\ (has_exit /\ pc = "dispatch") => pc' \in {"dispatch", "tick"}
       /\ (has_exit /\ pc = "tick") => pc' = "save"
       /\ (has_exit /\ pc = "save") => pc' = "loop_top"
       /\ (has_exit /\ pc = "loop_top") => pc' = "finalize"
       /\ pc' = "finalize" => pc \in {"loop_top", "finalize"}]_vars

\* Escape was pressed with Shift and Ctrl held and handed to a registered key
\* callback; the flag is set and the events of the iteration are still being
\* dispatched
C22_Witness ==
    /\ pc = "dispatch"
    /\ has_exit /\ ~done
    /\ handled_ev = [kind |-> "key_press", symbol |-> "ESCAPE", mod |-> {"SHIFT", "CTRL"}]
    /\ Len(calls) = 1
    /\ calls[1].ev = handled_ev

====
